---- MODULE Spec2Model ----
(***************************************************************************)
(* Batch samplers of examples/text_to_image/utils.py:                      *)
(*   AspectRatioBatchSampler          (cls = "basic")                      *)
(*   BalancedAspectRatioBatchSampler  (cls = "balanced")                   *)
(* Each __iter__ is a generator: one action per loop iteration, with a     *)
(* separate program location for every yield, where the generator is       *)
(* suspended and the consumer holds the batch.                             *)
(* Ratios and float(key) values are written in hundredths (0.5 is 50).     *)
(***************************************************************************)
EXTENDS Integers, Sequences, FiniteSets, TLC

\* ---- bounds of the model ------------------------------------------------
MaxLen == 3
MaxBatch == 2
MaxPasses == 2

\* ---- program constant: the qualification threshold of line 101 ----------
MinQuota == 3000

\* ---- inputs ---------------------------------------------------------------
\* aspect_ratios tables: ordered lists of keys (dict insertion order)
Tables == { <<"0.5", "1.0", "2.0">>, <<"1.0", "0.5", "2.0">> }

\* ratios of the dataset items, in hundredths; 75 is equidistant from "0.5" and "1.0"
Ratios == {75, 105, 210}

\* float(r) for a table key r
Float(r) ==
    CASE r = "0.5" -> 50
      [] r = "1.0" -> 100
      [] r = "2.0" -> 200

VARIABLES
    cls,                            \* which sampler class the instance is
    aspect_ratios,                  \* self.aspect_ratios (ordered keys)
    batch_size,                     \* self.batch_size
    drop_last,                      \* self.drop_last
    ratios,                         \* the dataset's ratio of each index, 0 .. len(sampler)-1
    ratio_nums_gt,                  \* self.ratio_nums_gt (balanced): float key -> quota
    aspect_ratio_buckets,           \* self._aspect_ratio_buckets
    original_buckets,               \* self.original_buckets (balanced)
    aspect_ratio_count,             \* self._aspect_ratio_count (balanced)
    current_available_bucket_keys,  \* self.current_available_bucket_keys
    all_available_keys,             \* self.all_available_keys (balanced)
    exhausted_bucket_keys,          \* self.exhausted_bucket_keys (balanced)
    total_batches,                  \* self.total_batches (balanced)
    pc,                             \* position of the generator
    cursor,                         \* number of indices pulled from the sampler in this pass
    i,                              \* local i of the balanced __iter__
    ratio,                          \* local ratio of the last index pulled
    key,                            \* local closest_ratio / key
    bucket,                         \* local bucket of the basic drain loop
    drain_pos,                      \* position of the drain loop in the buckets' values()
    remaining,                      \* iterations left of the trailing range()
    yielded,                        \* the batch handed to the consumer at a yield
    emitted,                        \* batches handed over so far in this pass
    pass,                           \* number of __iter__ calls on the instance
    hist                            \* history of the balanced rounds (not program state)

vars == << cls, aspect_ratios, batch_size, drop_last, ratios, ratio_nums_gt,
           aspect_ratio_buckets, original_buckets, aspect_ratio_count,
           current_available_bucket_keys, all_available_keys, exhausted_bucket_keys,
           total_batches, pc, cursor, i, ratio, key, bucket, drain_pos, remaining,
           yielded, emitted, pass, hist >>

config == << cls, aspect_ratios, batch_size, drop_last, ratios, ratio_nums_gt,
             all_available_keys, total_batches >>

\* ---- helpers ---------------------------------------------------------------
Abs(x) == IF x < 0 THEN -x ELSE x

SeqToSet(s) == { s[j] : j \in 1..Len(s) }

\* x in list
In(x, s) == \E j \in 1..Len(s) : s[j] = x

\* list.remove(x): removes the first occurrence
Remove(s, x) ==
    LET p == CHOOSE j \in 1..Len(s) : s[j] = x /\ \A m \in 1..(j-1) : s[m] # x
    IN  SubSeq(s, 1, p-1) \o SubSeq(s, p+1, Len(s))

\* s[:n] and s[n:]
Take(s, n) == SubSeq(s, 1, IF n < Len(s) THEN n ELSE Len(s))
Drop(s, n) == SubSeq(s, n+1, Len(s))

\* len(self.sampler)
SamplerLen == Cardinality(DOMAIN ratios)

\* min(keys, key=lambda r: abs(float(r) - ratio)): scans the keys in order and
\* replaces the candidate only by a strictly smaller distance
RECURSIVE MinScan(_, _, _, _)
MinScanLast(keys, v, j, best) ==
    IF j > Len(keys) THEN best
    ELSE IF Abs(Float(keys[j]) - v) <= Abs(Float(best) - v)
         THEN MinScan(keys, v, j+1, keys[j])
         ELSE MinScan(keys, v, j+1, best)
MinScan(keys, v, j, best) ==
    IF j > Len(keys) THEN best
    ELSE IF Abs(Float(keys[j]) - v) < Abs(Float(best) - v)
         THEN MinScan(keys, v, j+1, keys[j])
         ELSE MinScan(keys, v, j+1, best)

ClosestRatio(keys, v) == MinScan(keys, v, 2, keys[1])

\* random.shuffle of a copy of s: any rearrangement of s (each one listed once,
\* also when s holds an index several times)
RECURSIVE Shuffles(_)
Shuffles(s) ==
    IF s = << >> THEN { << >> }
    ELSE UNION { { << s[j] >> \o t :
                     t \in Shuffles(SubSeq(s, 1, j-1) \o SubSeq(s, j+1, Len(s))) } :
                 j \in { m \in 1..Len(s) : \A n \in 1..(m-1) : s[n] # s[m] } }

\* ---- construction ------------------------------------------------------------
\* the scenario dataset: five items whose closest keys are 0.5, 0.5, 1.0, 2.0, 0.5
\* in the table "0.5", "1.0", "2.0"
Scenario == (0 :> 75) @@ (1 :> 75) @@ (2 :> 105) @@ (3 :> 210) @@ (4 :> 75)

\* the reuse dataset, whose sampler is iterated once more than the others: four
\* items whose closest keys are 0.5, 0.5, 0.5, 1.0
Reuse == (0 :> 75) @@ (1 :> 75) @@ (2 :> 75) @@ (3 :> 105)

Datasets == UNION { [0..(n-1) -> Ratios] : n \in 0..MaxLen }

\* AspectRatioBatchSampler.__init__
InitBasic ==
    /\ cls = "basic"
    /\ aspect_ratios \in Tables
    /\ batch_size \in 1..MaxBatch
    /\ drop_last \in BOOLEAN
    /\ ratios \in Datasets \cup {Scenario}
    /\ ratio_nums_gt = << >>
    /\ aspect_ratio_buckets = [r \in SeqToSet(aspect_ratios) |-> << >>]
    /\ current_available_bucket_keys = aspect_ratios
    /\ original_buckets = << >>
    /\ aspect_ratio_count = << >>
    /\ all_available_keys = << >>
    /\ exhausted_bucket_keys = << >>
    /\ total_batches = 0
    /\ key = ""

\* the float keys of a table, in table order
FloatKeys(keys) == [j \in 1..Len(keys) |-> Float(keys[j])]

\* [k for k, v in self.ratio_nums_gt.items() if v >= 3000], items in table order
Qualifying(keys, nums) ==
    SelectSeq(FloatKeys(keys), LAMBDA k : nums[k] >= MinQuota)

\* quota mappings over the table's float keys, around the threshold; the quota of
\* the last key of the table stays below it
QuotaMaps(keys) ==
    { nums \in [SeqToSet(FloatKeys(keys)) -> {MinQuota - 1, MinQuota}] :
        nums[Float(keys[Len(keys)])] = MinQuota - 1 }

\* BalancedAspectRatioBatchSampler.__init__
InitBalancedWith(ds, bs, nums) ==
    /\ cls = "balanced"
    /\ aspect_ratios \in Tables
    /\ batch_size \in bs
    /\ drop_last = FALSE
    /\ ratios \in ds
    /\ ratio_nums_gt \in nums
    /\ aspect_ratio_buckets = [k \in SeqToSet(FloatKeys(aspect_ratios)) |-> << >>]
    /\ current_available_bucket_keys = Qualifying(aspect_ratios, ratio_nums_gt)
    /\ all_available_keys = current_available_bucket_keys
    /\ exhausted_bucket_keys = << >>
    /\ total_batches = SamplerLen \div batch_size
    /\ aspect_ratio_count = [k \in SeqToSet(all_available_keys) |-> 0]
    /\ original_buckets = [k \in SeqToSet(all_available_keys) |-> << >>]
    /\ key = 0

InitBalanced == InitBalancedWith(Datasets, 1..MaxBatch, QuotaMaps(<<"0.5", "1.0", "2.0">>))

\* A dataset long enough for one key to reach the smallest qualifying quota:
\* MinQuota + 1 items of ratio 0.5, "0.5" being the only qualifying key, and a
\* batch size that divides the quota.
QuotaDataset == [n \in 0..MinQuota |-> 50]
QuotaBatchSizes == { b \in 2..MaxBatch : MinQuota % b = 0 }
QuotaNums == [k \in {50, 100, 200} |-> IF k = 50 THEN MinQuota ELSE MinQuota - 1]

InitQuota == InitBalancedWith({QuotaDataset}, QuotaBatchSizes, {QuotaNums})

\* The history kept beside the program's state, for the properties of the balanced
\* rounds: round is the keys of the streaming batches handed over since the last
\* swap of lines 123-124, last the key of the most recent streaming batch (0 when
\* there is none), moved whether lines 134-135 have run for it, swapped whether a
\* swap has happened since it, iters the trailing iterations finished in this pass.
NoHistory == [round |-> << >>, last |-> 0, moved |-> FALSE, swapped |-> FALSE, iters |-> 0]

InitReuse == InitBalancedWith({Reuse}, {MaxBatch}, QuotaMaps(<<"0.5", "1.0", "2.0">>))

Init ==
    /\ InitBasic \/ InitBalanced \/ InitQuota \/ InitReuse
    /\ pc = "idle"
    /\ cursor = 0
    /\ i = 0
    /\ ratio = 0
    /\ bucket = << >>
    /\ drain_pos = 0
    /\ remaining = 0
    /\ yielded = << >>
    /\ emitted = << >>
    /\ pass = 0
    /\ hist = NoHistory

\* ---- the consumer ------------------------------------------------------------
\* the number of times the consumer calls iter() on the instance; one more on the
\* reuse dataset while it is longer than the others
Passes == IF ratios = Reuse /\ SamplerLen > MaxLen THEN MaxPasses + 1 ELSE MaxPasses

\* iter(sampler): a new generator; nothing of the body runs before the first next()
Iter ==
    /\ pc \in {"idle", "done"}
    /\ pass < Passes
    /\ SamplerLen <= MaxLen \/ ratios = Reuse \/ pass = 0
    /\ pc' = "stream"
    /\ cursor' = 0
    /\ i' = 0
    /\ emitted' = << >>
    /\ yielded' = << >>
    /\ pass' = pass + 1
    /\ hist' = [hist EXCEPT !.iters = 0]
    /\ UNCHANGED << config, aspect_ratio_buckets, original_buckets, aspect_ratio_count,
                    current_available_bucket_keys, exhausted_bucket_keys,
                    ratio, key, bucket, drain_pos, remaining >>

\* the consumer stops iterating while the generator is suspended at a yield
Abandon ==
    /\ pc \in {"yield_stream", "yield_drain", "yield_trail"}
    /\ pc' = "idle"
    /\ yielded' = << >>
    /\ UNCHANGED << config, hist, aspect_ratio_buckets, original_buckets, aspect_ratio_count,
                    current_available_bucket_keys, exhausted_bucket_keys,
                    cursor, i, ratio, key, bucket, drain_pos, remaining, emitted, pass >>

\* ---- AspectRatioBatchSampler.__iter__ ----------------------------------------
\* line 77: the bucket is handed over as soon as it holds batch_size indices
BasicEmitsEarly(b) == Len(b) >= 1
BasicEmits(b) == Len(b) = batch_size

\* lines 66-78: one iteration of the for loop, up to the yield
BasicStreamStep ==
    /\ cls = "basic"
    /\ pc = "stream"
    /\ cursor < SamplerLen
    /\ LET idx == cursor
           closest_ratio == ClosestRatio(aspect_ratios, ratios[idx])
           appended == Append(aspect_ratio_buckets[closest_ratio], idx)
       IN  /\ cursor' = cursor + 1
           /\ ratio' = ratios[idx]
           /\ key' = closest_ratio
           /\ IF ~In(closest_ratio, current_available_bucket_keys)
              THEN UNCHANGED << aspect_ratio_buckets, pc, yielded, emitted >>
              ELSE /\ aspect_ratio_buckets' =
                          [aspect_ratio_buckets EXCEPT ![closest_ratio] = appended]
                   /\ IF BasicEmits(appended)
                      THEN /\ pc' = "yield_stream"
                           /\ yielded' = appended
                           /\ emitted' = Append(emitted, appended)
                      ELSE UNCHANGED << pc, yielded, emitted >>
    /\ UNCHANGED << config, hist, original_buckets, aspect_ratio_count,
                    current_available_bucket_keys, exhausted_bucket_keys,
                    i, bucket, drain_pos, remaining, pass >>

\* line 79 left out: the bucket keeps the indices it has handed over
BasicStreamResumeNoDel ==
    /\ cls = "basic"
    /\ pc = "yield_stream"
    /\ pc' = "stream"
    /\ yielded' = << >>
    /\ UNCHANGED << config, hist, aspect_ratio_buckets, original_buckets, aspect_ratio_count,
                    current_available_bucket_keys, exhausted_bucket_keys,
                    cursor, i, ratio, key, bucket, drain_pos, remaining, emitted, pass >>

\* line 79: resumed after the yield of line 78
BasicStreamResume ==
    /\ cls = "basic"
    /\ pc = "yield_stream"
    /\ aspect_ratio_buckets' = [aspect_ratio_buckets EXCEPT ![key] = << >>]
    /\ pc' = "stream"
    /\ yielded' = << >>
    /\ UNCHANGED << config, hist, original_buckets, aspect_ratio_count,
                    current_available_bucket_keys, exhausted_bucket_keys,
                    cursor, i, ratio, key, bucket, drain_pos, remaining, emitted, pass >>

\* line 82: values() walks the buckets in the order of the table's keys
DrainKeyReversed(p) == aspect_ratios[Len(aspect_ratios) + 1 - p]
DrainKey(p) == aspect_ratios[p]

\* the sampler is exhausted; line 82 binds bucket to the first value of the dict
BasicStreamEnd ==
    /\ cls = "basic"
    /\ pc = "stream"
    /\ cursor = SamplerLen
    /\ pc' = "drain"
    /\ drain_pos' = 1
    /\ bucket' = aspect_ratio_buckets[DrainKey(1)]
    /\ UNCHANGED << config, hist, aspect_ratio_buckets, original_buckets, aspect_ratio_count,
                    current_available_bucket_keys, exhausted_bucket_keys,
                    cursor, i, ratio, key, remaining, yielded, emitted, pass >>

\* line 85: the remainder of a bucket is handed over unless drop_last is set
KeepsLastAlways == TRUE
KeepsLast == ~drop_last

\* line 87: the local bucket once the remainder is gone
EmptiedUnlessDropping == IF drop_last THEN bucket ELSE << >>
Emptied == << >>

\* lines 83-90: one iteration of the while loop, up to a yield if it has one
BasicDrainStep ==
    /\ cls = "basic"
    /\ pc = "drain"
    /\ Len(bucket) > 0
    /\ IF Len(bucket) <= batch_size
       THEN IF KeepsLast
            THEN /\ pc' = "yield_drain"
                 /\ yielded' = bucket
                 /\ emitted' = Append(emitted, bucket)
                 /\ UNCHANGED bucket
            ELSE /\ bucket' = Emptied
                 /\ UNCHANGED << pc, yielded, emitted >>
       ELSE /\ pc' = "yield_drain"
            /\ yielded' = Take(bucket, batch_size)
            /\ emitted' = Append(emitted, Take(bucket, batch_size))
            /\ UNCHANGED bucket
    /\ UNCHANGED << config, hist, aspect_ratio_buckets, original_buckets, aspect_ratio_count,
                    current_available_bucket_keys, exhausted_bucket_keys,
                    cursor, i, ratio, key, drain_pos, remaining, pass >>

\* line 87 or line 90: resumed after the yield of line 86 or 89; rebinds the local
BasicDrainResumeStored ==
    /\ cls = "basic"
    /\ pc = "yield_drain"
    /\ bucket' = IF Len(bucket) <= batch_size THEN << >> ELSE Drop(bucket, batch_size)
    /\ aspect_ratio_buckets' = [aspect_ratio_buckets EXCEPT ![DrainKey(drain_pos)] = bucket']
    /\ pc' = "drain"
    /\ yielded' = << >>
    /\ UNCHANGED << config, hist, original_buckets, aspect_ratio_count,
                    current_available_bucket_keys, exhausted_bucket_keys,
                    cursor, i, ratio, key, drain_pos, remaining, emitted, pass >>
BasicDrainResume ==
    /\ cls = "basic"
    /\ pc = "yield_drain"
    /\ bucket' = IF Len(bucket) <= batch_size THEN Emptied ELSE Drop(bucket, batch_size)
    /\ pc' = "drain"
    /\ yielded' = << >>
    /\ UNCHANGED << config, hist, aspect_ratio_buckets, original_buckets, aspect_ratio_count,
                    current_available_bucket_keys, exhausted_bucket_keys,
                    cursor, i, ratio, key, drain_pos, remaining, emitted, pass >>

\* line 82: the while loop has ended; the next bucket, or the end of the generator
BasicDrainNext ==
    /\ cls = "basic"
    /\ pc = "drain"
    /\ Len(bucket) = 0
    /\ IF drain_pos < Len(aspect_ratios)
       THEN /\ drain_pos' = drain_pos + 1
            /\ bucket' = aspect_ratio_buckets[DrainKey(drain_pos + 1)]
            /\ UNCHANGED pc
       ELSE /\ pc' = "done"
            /\ UNCHANGED << drain_pos, bucket >>
    /\ UNCHANGED << config, hist, aspect_ratio_buckets, original_buckets, aspect_ratio_count,
                    current_available_bucket_keys, exhausted_bucket_keys,
                    cursor, i, ratio, key, remaining, yielded, emitted, pass >>

\* ---- BalancedAspectRatioBatchSampler.__iter__ --------------------------------
\* line 119: idx is captured only under the key's quota
CapturesUpTo(k) == aspect_ratio_count[k] <= ratio_nums_gt[k]
Captures(k) == aspect_ratio_count[k] < ratio_nums_gt[k]

\* lines 123-124: the available keys after the swap check
SwappedAvailableNever == current_available_bucket_keys
SwappedAvailable ==
    IF current_available_bucket_keys = << >>
    THEN exhausted_bucket_keys
    ELSE current_available_bucket_keys

\* lines 123-124: the exhausted keys after the swap check
SwappedExhaustedKept == exhausted_bucket_keys
SwappedExhausted ==
    IF current_available_bucket_keys = << >>
    THEN << >>
    ELSE exhausted_bucket_keys

\* line 130: the bucket is handed over in the streaming phase
StreamEmitsAtLeast(b) == Len(b) >= batch_size
StreamEmits(b) == Len(b) = batch_size

\* line 126: the key can hand over a batch in this round
AvailableAlways(k) == TRUE
Available(k) == In(k, SwappedAvailable)

\* the history after the swap check of lines 123-124
HistSwap(h) ==
    IF current_available_bucket_keys = << >>
    THEN [h EXCEPT !.round = << >>, !.swapped = TRUE]
    ELSE h

\* the history after the yield of line 131 for key k
HistBatch(h, k) ==
    [h EXCEPT !.round = Append(@, k), !.last = k, !.moved = FALSE, !.swapped = FALSE]

\* lines 112-131: one iteration of the for loop, up to the yield
BalancedStreamStep ==
    /\ cls = "balanced"
    /\ pc = "stream"
    /\ cursor < SamplerLen
    /\ LET idx == cursor
           closest_ratio == Float(ClosestRatio(aspect_ratios, ratios[idx]))
       IN  /\ cursor' = cursor + 1
           /\ ratio' = ratios[idx]
           /\ key' = closest_ratio
           /\ IF ~In(closest_ratio, all_available_keys)
              THEN UNCHANGED << aspect_ratio_buckets, original_buckets, aspect_ratio_count,
                                current_available_bucket_keys, exhausted_bucket_keys,
                                pc, yielded, emitted, hist >>
              ELSE LET b == IF Captures(closest_ratio)
                            THEN Append(aspect_ratio_buckets[closest_ratio], idx)
                            ELSE aspect_ratio_buckets[closest_ratio]
                   IN  /\ IF Captures(closest_ratio)
                          THEN /\ aspect_ratio_count' =
                                     [aspect_ratio_count EXCEPT ![closest_ratio] = @ + 1]
                               /\ aspect_ratio_buckets' =
                                     [aspect_ratio_buckets EXCEPT ![closest_ratio] = b]
                               /\ original_buckets' =
                                     [original_buckets EXCEPT ![closest_ratio] = Append(@, idx)]
                          ELSE UNCHANGED << aspect_ratio_count, aspect_ratio_buckets,
                                            original_buckets >>
                       /\ current_available_bucket_keys' = SwappedAvailable
                       /\ exhausted_bucket_keys' = SwappedExhausted
                       /\ IF Available(closest_ratio) /\ StreamEmits(b)
                          THEN /\ pc' = "yield_stream"
                               /\ yielded' = Take(b, batch_size)
                               /\ emitted' = Append(emitted, Take(b, batch_size))
                               /\ hist' = HistBatch(HistSwap(hist), closest_ratio)
                          ELSE /\ hist' = HistSwap(hist)
                               /\ UNCHANGED << pc, yielded, emitted >>
    /\ UNCHANGED << config, i, bucket, drain_pos, remaining, pass >>

\* lines 132-135: resumed after the yield of line 131
BalancedStreamResume ==
    /\ cls = "balanced"
    /\ pc = "yield_stream"
    /\ aspect_ratio_buckets' = [aspect_ratio_buckets EXCEPT ![key] = Drop(@, batch_size)]
    /\ i' = i + 1
    /\ exhausted_bucket_keys' = Append(exhausted_bucket_keys, key)
    /\ current_available_bucket_keys' = Remove(current_available_bucket_keys, key)
    /\ pc' = "stream"
    /\ yielded' = << >>
    /\ hist' = [hist EXCEPT !.moved = TRUE]
    /\ UNCHANGED << config, original_buckets, aspect_ratio_count,
                    cursor, ratio, key, bucket, drain_pos, remaining, emitted, pass >>

\* line 137: the length of range(self.total_batches - i)
TrailingIterationsAll == total_batches
TrailingIterations == IF total_batches - i > 0 THEN total_batches - i ELSE 0

\* line 137: the sampler is exhausted; the range of the trailing loop is fixed here
BalancedStreamEnd ==
    /\ cls = "balanced"
    /\ pc = "stream"
    /\ cursor = SamplerLen
    /\ remaining' = TrailingIterations
    /\ pc' = "trailing"
    /\ UNCHANGED << config, hist, aspect_ratio_buckets, original_buckets, aspect_ratio_count,
                    current_available_bucket_keys, exhausted_bucket_keys,
                    cursor, i, ratio, key, bucket, drain_pos, yielded, emitted, pass >>

\* line 140: the drawn key's bucket can supply a batch
TrailEmitsAlways(b) == TRUE
TrailEmitsExactly(b) == Len(b) = batch_size
TrailEmits(b) == Len(b) >= batch_size

\* lines 138-149: one iteration of the trailing loop, up to the yield if it has one;
\* choice() of an empty list raises IndexError
BalancedTrailStep ==
    /\ cls = "balanced"
    /\ pc = "trailing"
    /\ remaining > 0
    /\ IF all_available_keys = << >>
       THEN /\ pc' = "error"
            /\ UNCHANGED << aspect_ratio_buckets, key, remaining, yielded, emitted, hist >>
       ELSE \E k \in SeqToSet(all_available_keys) :
              /\ key' = k
              /\ IF TrailEmits(aspect_ratio_buckets[k])
                 THEN /\ pc' = "yield_trail"
                      /\ yielded' = Take(aspect_ratio_buckets[k], batch_size)
                      /\ emitted' = Append(emitted, Take(aspect_ratio_buckets[k], batch_size))
                      /\ UNCHANGED << aspect_ratio_buckets, remaining, hist >>
                 ELSE /\ \E refill \in Shuffles(original_buckets[k]) :
                            aspect_ratio_buckets' = [aspect_ratio_buckets EXCEPT ![k] = refill]
                      /\ remaining' = remaining - 1
                      /\ hist' = [hist EXCEPT !.iters = @ + 1]
                      /\ UNCHANGED << pc, yielded, emitted >>
    /\ UNCHANGED << config, original_buckets, aspect_ratio_count,
                    current_available_bucket_keys, exhausted_bucket_keys,
                    cursor, i, ratio, bucket, drain_pos, pass >>

\* lines 142-147: resumed after the yield of line 141
BalancedTrailResume ==
    /\ cls = "balanced"
    /\ pc = "yield_trail"
    /\ LET rest == Drop(aspect_ratio_buckets[key], batch_size)
       IN  IF rest = << >>
           THEN \E refill \in Shuffles(original_buckets[key]) :
                   aspect_ratio_buckets' = [aspect_ratio_buckets EXCEPT ![key] = refill]
           ELSE aspect_ratio_buckets' = [aspect_ratio_buckets EXCEPT ![key] = rest]
    /\ remaining' = remaining - 1
    /\ pc' = "trailing"
    /\ yielded' = << >>
    /\ hist' = [hist EXCEPT !.iters = @ + 1]
    /\ UNCHANGED << config, original_buckets, aspect_ratio_count,
                    current_available_bucket_keys, exhausted_bucket_keys,
                    cursor, i, ratio, key, bucket, drain_pos, emitted, pass >>

\* the range() of line 137 is used up: the generator returns
BalancedTrailEnd ==
    /\ cls = "balanced"
    /\ pc = "trailing"
    /\ remaining = 0
    /\ pc' = "done"
    /\ UNCHANGED << config, hist, aspect_ratio_buckets, original_buckets, aspect_ratio_count,
                    current_available_bucket_keys, exhausted_bucket_keys,
                    cursor, i, ratio, key, bucket, drain_pos, remaining, yielded,
                    emitted, pass >>

\* ---- the program ---------------------------------------------------------------
Next ==
    \/ Iter
    \/ Abandon
    \/ BasicStreamStep
    \/ BasicStreamResume
    \/ BasicStreamEnd
    \/ BasicDrainStep
    \/ BasicDrainResume
    \/ BasicDrainNext
    \/ BalancedStreamStep
    \/ BalancedStreamResume
    \/ BalancedStreamEnd
    \/ BalancedTrailStep
    \/ BalancedTrailResume
    \/ BalancedTrailEnd

Spec == Init /\ [][Next]_vars

\* ---- the program under a consumer that keeps asking -----------------------------
\* a step of the generator: the consumer's next() runs the body up to the next
\* yield or to its end
Step ==
    \/ BasicStreamStep
    \/ BasicStreamResume
    \/ BasicStreamEnd
    \/ BasicDrainStep
    \/ BasicDrainResume
    \/ BasicDrainNext
    \/ BalancedStreamStep
    \/ BalancedStreamResume
    \/ BalancedStreamEnd
    \/ BalancedTrailStep
    \/ BalancedTrailResume
    \/ BalancedTrailEnd

\* The generator is single-threaded and runs only inside next(): a consumer that
\* has not stopped (Abandon) calls next() again, and the call runs the body to
\* its next suspension. Nothing is assumed of iter() and of stopping.
SpecLive == Init /\ [][Next]_vars /\ WF_vars(Step)

\* ---- the first pass over the quota dataset, two batches before the quota -------
\* The state of the first pass over QuotaDataset when MinQuota - 2 * batch_size
\* indices have been pulled: all of them captured and handed over in streaming
\* batches, the only qualifying key exhausted for the round.
NearQuotaCursor == MinQuota - 2 * batch_size

NearQuotaState ==
    /\ cls = "balanced"
    /\ aspect_ratios \in Tables
    /\ batch_size \in QuotaBatchSizes
    /\ drop_last = FALSE
    /\ ratios = QuotaDataset
    /\ ratio_nums_gt = QuotaNums
    /\ aspect_ratio_buckets = [k \in {50, 100, 200} |-> << >>]
    /\ original_buckets = (50 :> [j \in 1..NearQuotaCursor |-> j - 1])
    /\ aspect_ratio_count = (50 :> NearQuotaCursor)
    /\ current_available_bucket_keys = << >>
    /\ all_available_keys = << 50 >>
    /\ exhausted_bucket_keys = << 50 >>
    /\ total_batches = (MinQuota + 1) \div batch_size
    /\ pc = "stream"
    /\ cursor = NearQuotaCursor
    /\ i = NearQuotaCursor \div batch_size
    /\ ratio = 50
    /\ key = 50
    /\ bucket = << >>
    /\ drain_pos = 0
    /\ remaining = 0
    /\ yielded = << >>
    /\ emitted = [n \in 1..(NearQuotaCursor \div batch_size) |->
                     [j \in 1..batch_size |-> (n - 1) * batch_size + j - 1]]
    /\ pass = 1
    /\ hist = [round |-> << 50 >>, last |-> 50, moved |-> TRUE, swapped |-> FALSE, iters |-> 0]

\* Spec reaches NearQuotaState, and no other state, at that point of the pass
NearQuotaIsReached ==
    (ratios = QuotaDataset /\ pc = "stream" /\ cursor = MinQuota - 2 * batch_size)
        => NearQuotaState

\* the program, also followed from NearQuotaState on
SpecQuota == (Init \/ NearQuotaState) /\ [][Next]_vars

\* ---- properties -----------------------------------------------------------------
\* the generator is suspended at a yield and the consumer holds `yielded`
AtYield == pc \in {"yield_stream", "yield_drain", "yield_trail"}

\* the bucket key an index is routed to
Route(idx) ==
    IF cls = "basic"
    THEN ClosestRatio(aspect_ratios, ratios[idx])
    ELSE Float(ClosestRatio(aspect_ratios, ratios[idx]))

\* how many times idx occurs in the batches handed over in this pass
RECURSIVE Occurrences(_, _)
Occurrences(idx, n) ==
    IF n = 0 THEN 0
    ELSE Occurrences(idx, n - 1)
         + Cardinality({ j \in 1..Len(emitted[n]) : emitted[n][j] = idx })

\* the indices pulled in this pass that were appended to a bucket of the basic sampler
Appended ==
    { idx \in 0..(cursor - 1) : In(Route(idx), current_available_bucket_keys) }

\* the first pass over a freshly constructed basic sampler
FreshBasicPass == cls = "basic" /\ pass = 1

\* C1: basic sampler, drop_last = false, first pass over a fresh instance: no
\* appended index is handed over twice, and when the pass has completed every
\* appended index has been handed over exactly once.
C1_NoLossNoDuplicate ==
    (FreshBasicPass /\ ~drop_last) =>
        \A idx \in Appended :
            /\ Occurrences(idx, Len(emitted)) <= 1
            /\ pc = "done" => Occurrences(idx, Len(emitted)) = 1

\* a completed first pass that handed over a full batch while streaming and then
\* a remainder in the drain
C1_Witness ==
    /\ FreshBasicPass /\ ~drop_last /\ pc = "done"
    /\ Cardinality(Appended) = 3
    /\ batch_size = 2
    /\ Len(emitted) = 2
    /\ Len(emitted[1]) = 2 /\ Len(emitted[2]) = 1

\* the appended indices routed to key k that no batch of this pass holds
Unemitted(k) ==
    { idx \in Appended : Route(idx) = k /\ Occurrences(idx, Len(emitted)) = 0 }

\* C2: basic sampler, drop_last = true, first pass over a fresh instance: for each
\* key at most batch_size - 1 appended indices are in no batch, and no batch handed
\* over is shorter than batch_size.
C2_DropLastBound ==
    (FreshBasicPass /\ drop_last) =>
        /\ \A k \in SeqToSet(aspect_ratios) : Cardinality(Unemitted(k)) <= batch_size - 1
        /\ \A n \in 1..Len(emitted) : Len(emitted[n]) = batch_size

\* a completed first pass with drop_last that handed over a full batch and dropped
\* the one-index remainder of a key
C2_Witness ==
    /\ FreshBasicPass /\ drop_last /\ pc = "done"
    /\ batch_size = 2
    /\ Len(emitted) = 1
    /\ Cardinality({ k \in SeqToSet(aspect_ratios) : Cardinality(Unemitted(k)) = 1 }) = 1
    /\ Cardinality(Appended) = 3

\* C3: every batch handed over by either sampler, in any phase, is non-empty and
\* holds only indices routed to one and the same key; in the balanced sampler that
\* key is a qualifying key.
C3_OneKeyPerBatch ==
    AtYield =>
        /\ Len(yielded) >= 1
        /\ \A j \in 1..Len(yielded) : Route(yielded[j]) = Route(yielded[1])
        /\ cls = "balanced" =>
              \A j \in 1..Len(yielded) :
                  ratio_nums_gt[Route(yielded[j])] >= MinQuota

\* a trailing batch of two indices of the balanced sampler, over a dataset that also
\* holds an index of a non-qualifying key
C3_Witness ==
    /\ cls = "balanced" /\ pc = "yield_trail"
    /\ Len(yielded) = 2
    /\ \E idx \in DOMAIN ratios : ratio_nums_gt[Route(idx)] < MinQuota

\* the original statement of C4: every batch of a pass of the basic sampler but the
\* last one has exactly batch_size indices
C4_OnlyFinalShort ==
    cls = "basic" =>
        \A n \in 1..(Len(emitted) - 1) : Len(emitted[n]) = batch_size

\* batch n of this pass is shorter than batch_size
Short(n) == Len(emitted[n]) < batch_size

\* C4 (amended): in a pass of the basic sampler no batch is longer than batch_size,
\* every batch handed over in the streaming phase has exactly batch_size indices, and
\* in the drain phase each key hands over at most one batch shorter than batch_size,
\* which is the last batch of that key.
C4_OneShortPerKey ==
    cls = "basic" =>
        /\ \A n \in 1..Len(emitted) : Len(emitted[n]) \in 1..batch_size
        /\ pc \in {"stream", "yield_stream"} =>
              \A n \in 1..Len(emitted) : Len(emitted[n]) = batch_size
        /\ \A n \in 1..Len(emitted) :
              Short(n) =>
                  \A m \in (n + 1)..Len(emitted) :
                      Route(emitted[m][1]) # Route(emitted[n][1])

\* a completed pass of the basic sampler that handed over a full batch while
\* streaming and whose drain handed over the short remainders of several keys
C4_Witness ==
    /\ cls = "basic" /\ pc = "done"
    /\ Len(emitted) >= 3
    /\ ~Short(1)
    /\ Cardinality({ n \in 1..Len(emitted) : Short(n) }) >= 2

\* C5: the key the samplers resolve for a ratio is a table key at minimal absolute
\* distance from the ratio, and among several such keys the first in table order.
C5_NearestFirst ==
    (pc \in {"stream", "yield_stream"} /\ cursor > 0) =>
        LET d(j) == Abs(Float(aspect_ratios[j]) - ratio)
            first == CHOOSE p \in 1..Len(aspect_ratios) :
                        /\ \A j \in 1..Len(aspect_ratios) : d(p) <= d(j)
                        /\ \A j \in 1..(p - 1) : d(j) > d(p)
        IN  /\ ratio = ratios[cursor - 1]
            /\ key = IF cls = "basic"
                     THEN aspect_ratios[first]
                     ELSE Float(aspect_ratios[first])

\* a ratio at the same distance from "1.0" and "0.5" resolved to "1.0", the first
\* of the two in the table although the numerically larger
C5_Witness ==
    /\ cls = "basic" /\ pc = "stream" /\ cursor > 0
    /\ aspect_ratios = <<"1.0", "0.5", "2.0">>
    /\ ratio = 75
    /\ key = "1.0"

\* the scenario: table "0.5", "1.0", "2.0", batch_size 2, drop_last false, five
\* indices whose keys are 0.5, 0.5, 1.0, 2.0, 0.5, first pass
InScenario ==
    /\ FreshBasicPass
    /\ aspect_ratios = <<"0.5", "1.0", "2.0">>
    /\ batch_size = 2
    /\ ~drop_last
    /\ ratios = Scenario

\* the original statement of C6: the drain hands over [2], [3], [4] in that order
C6_ScenarioAsStated ==
    (InScenario /\ pc = "done") =>
        emitted = << <<0, 1>>, <<2>>, <<3>>, <<4>> >>

\* C6 (amended): in the scenario [0,1] is handed over as soon as index 1 arrives and
\* the drain then hands over, in table order, [4] for "0.5", [2] for "1.0" and [3]
\* for "2.0".
C6_ScenarioTableOrder ==
    InScenario =>
        /\ cursor < 2 => emitted = << >>
        /\ (cursor >= 2 /\ pc \in {"stream", "yield_stream"}) =>
              emitted = << <<0, 1>> >>
        /\ pc = "done" => emitted = << <<0, 1>>, <<4>>, <<2>>, <<3>> >>

\* the scenario's pass has completed
C6_Witness == InScenario /\ pc = "done" /\ Len(emitted) = 4

\* the first pass over a freshly constructed balanced sampler
FreshBalancedPass == cls = "balanced" /\ pass = 1

\* C7: balanced sampler, first pass over a fresh instance: every batch handed over,
\* streaming or trailing, has exactly batch_size indices, and the pass hands over at
\* most floor(len(sampler) / batch_size) batches.
C7_FullBatchesWithinTarget ==
    FreshBalancedPass =>
        /\ AtYield => Len(yielded) = batch_size
        /\ Len(emitted) <= SamplerLen \div batch_size

\* a first pass that reaches its target with streaming batches and a trailing batch
C7_Witness ==
    /\ FreshBalancedPass /\ pc = "yield_trail"
    /\ i >= 1
    /\ Len(emitted) = SamplerLen \div batch_size
    /\ Len(emitted) > i

\* the keys whose quota meets the threshold
QualifyingKeys == { k \in DOMAIN ratio_nums_gt : ratio_nums_gt[k] >= MinQuota }

\* the capture counts agree with the snapshots and stay within the quotas
CountsWithinQuota ==
    cls = "balanced" =>
        \A k \in QualifyingKeys :
            /\ aspect_ratio_count[k] <= ratio_nums_gt[k]
            /\ aspect_ratio_count[k] = Len(original_buckets[k])

\* a step leaves alone the count, the snapshot and, when it pulls an index, the
\* bucket of every key whose count has reached its quota
CappedKeysNotAppended ==
    cls = "balanced" =>
        \A k \in QualifyingKeys :
            aspect_ratio_count[k] = ratio_nums_gt[k] =>
                /\ aspect_ratio_count'[k] = aspect_ratio_count[k]
                /\ original_buckets'[k] = original_buckets[k]
                /\ cursor' = cursor + 1 =>
                      aspect_ratio_buckets'[k] = aspect_ratio_buckets[k]

\* C8: balanced sampler, in every reachable state and across passes: each
\* qualifying key's capture count is at most its quota and equals the length of the
\* key's snapshot; once the count has reached the quota, indices of that key are
\* appended neither to the bucket nor to the snapshot.
C8_QuotaCap == []CountsWithinQuota /\ [][CappedKeysNotAppended]_vars

\* an index of a key has been pulled after the key's count reached its quota
C8_Witness ==
    /\ cls = "balanced" /\ pc = "stream"
    /\ cursor = MinQuota + 1
    /\ key = 50
    /\ aspect_ratio_count[50] = ratio_nums_gt[50]
    /\ Len(original_buckets[50]) = MinQuota

\* the bucket a batch is taken from, at a yield
SourceBucket == IF pc = "yield_drain" THEN bucket ELSE aspect_ratio_buckets[key]

\* the original statement of C9: a bucket holds at most batch_size indices whenever
\* a batch is handed over from it
C9_AtMostBatchSize == AtYield => Len(SourceBucket) <= batch_size

\* C9 (amended): whenever either sampler hands over a batch in the streaming phase
\* the key's bucket holds exactly batch_size indices; in the drain and trailing
\* phases the bucket may hold more, and the batch is its first batch_size indices
\* (the whole bucket when it holds fewer).
C9_StreamingExactly ==
    /\ pc = "yield_stream" => Len(SourceBucket) = batch_size
    /\ AtYield => yielded = Take(SourceBucket, batch_size)

\* a trailing batch taken from a bucket that holds more than batch_size indices
C9_Witness ==
    /\ pc = "yield_trail"
    /\ Len(SourceBucket) > batch_size
    /\ Len(yielded) = batch_size

\* available and exhausted keys are disjoint lists that together hold each
\* qualifying key once
KeysPartitioned ==
    cls = "balanced" =>
        /\ SeqToSet(current_available_bucket_keys) \cap SeqToSet(exhausted_bucket_keys) = {}
        /\ SeqToSet(current_available_bucket_keys) \cup SeqToSet(exhausted_bucket_keys)
               = QualifyingKeys
        /\ Len(current_available_bucket_keys) + Len(exhausted_bucket_keys)
               = Cardinality(QualifyingKeys)

\* a key passes from available to exhausted exactly in the loop iteration that
\* hands over its streaming batch
MovesWithStreamingBatch ==
    cls = "balanced" =>
        /\ \A k \in QualifyingKeys :
              (In(k, current_available_bucket_keys) /\ In(k, exhausted_bucket_keys'))
                  => (pc = "yield_stream" /\ pc' = "stream" /\ key = k)
        /\ (pc = "yield_stream" /\ pc' = "stream") =>
              /\ In(key, current_available_bucket_keys)
              /\ In(key, exhausted_bucket_keys')
              /\ ~In(key, current_available_bucket_keys')

\* the exhausted keys become the available ones only when no key is available
SwapsOnlyWhenEmpty ==
    (cls = "balanced" /\ exhausted_bucket_keys # << >> /\ exhausted_bucket_keys' = << >>) =>
        /\ current_available_bucket_keys = << >>
        /\ current_available_bucket_keys' = exhausted_bucket_keys

C11_OncePerRound ==
    cls = "balanced" =>
        \A p, q \in DOMAIN hist.round : p /= q => hist.round[p] /= hist.round[q]

\* ---- C12 -----------------------------------------------------------------------
\* the balanced generator hands a streaming batch over in this step (line 131)
StreamHandOver == cls = "balanced" /\ pc = "stream" /\ pc' = "yield_stream"

\* the key of a batch of the balanced scheduler
BalancedKey(batch) == Float(ClosestRatio(aspect_ratios, ratios[batch[1]]))

\* C12 as stated: with two or more qualifying keys, the key of a streaming batch is
\* never the key of the streaming batch before it.
C12_NeverTwiceRunning ==
    [][(StreamHandOver /\ Len(all_available_keys) >= 2) => key' /= hist.last]_vars

\* C12: with two or more qualifying keys, a key whose streaming batch has been
\* handed over and which has been moved to the exhausted list hands over the next
\* streaming batch as well only if the available and exhausted lists have been
\* swapped in between.
C12_TwiceOnlyAcrossSwap ==
    [][(StreamHandOver /\ Len(all_available_keys) >= 2 /\ key' = hist.last /\ hist.moved)
          => (hist.swapped \/ current_available_bucket_keys = << >>)]_vars

\* two qualifying keys, and the key that closed a round opens the next one: the
\* last two batches of the pass are of one key, the second the first of its round
C12_Witness ==
    /\ cls = "balanced"
    /\ pc = "yield_stream"
    /\ Len(all_available_keys) >= 2
    /\ Len(emitted) >= 2
    /\ BalancedKey(emitted[Len(emitted)]) = key
    /\ BalancedKey(emitted[Len(emitted) - 1]) = key
    /\ hist.round = << key >>

\* ---- C13 -----------------------------------------------------------------------
\* the balanced generator pulls an index from the sampler in this step (line 112)
Pulled == cls = "balanced" /\ pc = "stream" /\ cursor' = cursor + 1

\* lines 123-124 have swapped the lists in this step
ListsSwapped ==
    /\ current_available_bucket_keys' = exhausted_bucket_keys
    /\ exhausted_bucket_keys' = << >>

\* C13 as stated: the swap check is made for every index pulled, so whenever an
\* index is pulled while the available list is empty the lists are swapped,
\* whatever the index's key.
C13_SwapCheckOnEveryIndex ==
    [][(Pulled /\ current_available_bucket_keys = << >>) => ListsSwapped]_vars

\* C13: the swap check is made for every index whose key is a qualifying key,
\* whether or not the key is capped at its quota: such an index swaps the lists
\* when the available list is empty and leaves them alone otherwise. An index
\* whose key is not a qualifying key is discarded before the check and leaves
\* the lists alone.
C13_SwapCheckOnQualifying ==
    [][Pulled =>
         IF In(key', all_available_keys) /\ current_available_bucket_keys = << >>
         THEN ListsSwapped
         ELSE UNCHANGED << current_available_bucket_keys, exhausted_bucket_keys >>]_vars

\* the index pulled after the quota of key 0.5 was reached has swapped the lists:
\* the key is capped, the round is new and the key is available again
C13_Witness ==
    /\ cls = "balanced"
    /\ pc = "stream"
    /\ cursor = MinQuota + 1
    /\ key = 50
    /\ aspect_ratio_count[50] = ratio_nums_gt[50]
    /\ current_available_bucket_keys = << 50 >>
    /\ exhausted_bucket_keys = << >>
    /\ hist.swapped
    /\ hist.round = << >>

\* ---- C14 -----------------------------------------------------------------------
\* the basic generator is in its drain loop (lines 82-90)
Draining == cls = "basic" /\ pc \in {"drain", "yield_drain"}

\* In the drain loop the local bucket is what is left of the stored bucket of the
\* table key at drain_pos after whole batch_size prefixes were taken off (or
\* nothing, once the remainder is gone); a batch handed over is the batch_size
\* prefix of what is left, or all of it when no more is left. In the first pass
\* without drop_last every earlier table key has been handed over entirely and no
\* index of a later table key's bucket has been handed over yet.
DrainInOrder ==
    Draining =>
        /\ drain_pos \in 1..Len(aspect_ratios)
        /\ LET stored == aspect_ratio_buckets[aspect_ratios[drain_pos]]
           IN  \E n \in 0..Len(stored) :
                  /\ bucket = SubSeq(stored, n + 1, Len(stored))
                  /\ n % batch_size = 0 \/ n = Len(stored)
        /\ pc = "yield_drain" =>
              yielded = SubSeq(bucket, 1,
                               IF Len(bucket) < batch_size THEN Len(bucket) ELSE batch_size)
        /\ (pass = 1 /\ ~drop_last) =>
              /\ \A q \in 1..(drain_pos - 1) : Unemitted(aspect_ratios[q]) = {}
              /\ \A q \in (drain_pos + 1)..Len(aspect_ratios) :
                    \A j \in DOMAIN aspect_ratio_buckets[aspect_ratios[q]] :
                        Occurrences(aspect_ratio_buckets[aspect_ratios[q]][j], Len(emitted)) = 0

\* C14: the drain of the basic scheduler walks the buckets in the order of the
\* table's keys, one key after the other and never back, and within one bucket
\* hands over the batch_size prefixes before the final remainder.
C14_DrainInTableOrder ==
    /\ []DrainInOrder
    /\ [][(Draining /\ Draining') => drain_pos' \in {drain_pos, drain_pos + 1}]_vars

\* second pass over ratios 0.75, 0.75, 1.05 after the consumer stopped at the first
\* batch of the first pass: the bucket of the first table key held four indices
\* and was handed over as two prefixes, then the remainder of the second key
C14_Witness ==
    /\ cls = "basic" /\ ~drop_last /\ batch_size = 2 /\ pass = 2
    /\ aspect_ratios = << "0.5", "1.0", "2.0" >>
    /\ pc = "yield_drain"
    /\ drain_pos = 2
    /\ yielded = << 2 >>
    /\ emitted = << << 0, 1 >>, << 0, 1 >>, << 2 >> >>

\* ---- C15 -----------------------------------------------------------------------
\* C15 as stated: a pass of the balanced scheduler that has completed has run
\* exactly floor(len(sampler) / batch_size) minus the number of streaming batches
\* iterations of the trailing loop.
C15_TargetMinusStreamed ==
    (cls = "balanced" /\ pc = "done") => hist.iters = total_batches - i

\* the trailing loop draws a key and finishes the iteration or suspends in it
Drawn == cls = "balanced" /\ pc = "trailing" /\ pc' \in {"trailing", "yield_trail"}

\* the iterations of the trailing loop a pass has run when it has ended
TrailingCount ==
    cls = "balanced" =>
        /\ pc = "done" =>
              /\ hist.iters = (IF total_batches > i THEN total_batches - i ELSE 0)
              /\ all_available_keys = << >> => total_batches <= i
        /\ pc = "error" =>
              /\ hist.iters = 0
              /\ all_available_keys = << >>
              /\ total_batches > i

\* an iteration hands a batch over exactly when the drawn key's bucket holds
\* batch_size indices or more; otherwise it refills the bucket and hands over nothing
DrawEmitsIffEnough ==
    Drawn =>
        LET b == aspect_ratio_buckets[key']
        IN  IF Len(b) >= batch_size
            THEN /\ pc' = "yield_trail"
                 /\ yielded' = SubSeq(b, 1, batch_size)
                 /\ emitted' = Append(emitted, yielded')
                 /\ UNCHANGED aspect_ratio_buckets
            ELSE /\ pc' = "trailing"
                 /\ hist'.iters = hist.iters + 1
                 /\ aspect_ratio_buckets'[key'] \in Shuffles(original_buckets[key'])
                 /\ UNCHANGED << emitted, yielded >>

\* C15: the trailing loop of the balanced scheduler runs
\* floor(len(sampler) / batch_size) minus the number of streaming batches
\* iterations, and none when that difference is negative; with no qualifying key
\* and a positive difference its first iteration raises instead. An iteration
\* hands over a batch if and only if the drawn key's bucket holds at least
\* batch_size indices, and otherwise refills the bucket from the key's snapshot
\* and hands over nothing.
C15_TrailingIterations == []TrailingCount /\ [][DrawEmitsIffEnough]_vars

\* a completed first pass in which a trailing iteration drew a bucket too short to
\* supply a batch: fewer batches than floor(len(sampler) / batch_size)
C15_Witness ==
    /\ FreshBalancedPass
    /\ pc = "done"
    /\ hist.iters >= 1
    /\ Len(emitted) < total_batches

\* ---- C16 -----------------------------------------------------------------------
\* the indices of the dataset routed to table key k, in the order they are pulled
Routed(k) == SelectSeq([j \in 1..SamplerLen |-> j - 1], LAMBDA idx : Route(idx) = k)

\* what the streaming phase of a first pass leaves in the bucket of key k
Remainder(k) == Drop(Routed(k), (Len(Routed(k)) \div batch_size) * batch_size)

\* from the end of the source to the end of a first pass every stored bucket holds
\* the remainder the streaming phase left in it
RemaindersStay ==
    (FreshBasicPass /\ pc \in {"drain", "yield_drain", "done"}) =>
        \A k \in SeqToSet(aspect_ratios) : aspect_ratio_buckets[k] = Remainder(k)

Running == pc \in {"stream", "yield_stream", "drain", "yield_drain", "trailing", "yield_trail"}

\* the pass is over: the generator returned, raised, or the consumer stopped
Ended == pc \in {"done", "error", "idle"}

\* C17: a pass of either scheduler over a finite dataset comes to its end while
\* the consumer keeps asking - the drain loop of the basic scheduler ends for
\* every bucket and both values of drop_last, the trailing loop of the balanced
\* scheduler ends - and a generator that has returned hands over no batch: no
\* batch is at the consumer, and the only step left is a new iter().
C17_PassTerminates ==
    /\ Running ~> Ended
    /\ [](pc = "done" => yielded = << >>)
    /\ [][pc = "done" => (pass' = pass + 1 /\ emitted' = << >>)]_vars

\* a second pass of the basic scheduler with drop_last has returned although a
\* stored bucket holds more than batch_size indices: the drain handed over the
\* prefixes and dropped the rest
C17_Witness ==
    /\ cls = "basic" /\ drop_last /\ pass = 2
    /\ pc = "done"
    /\ \E k \in SeqToSet(aspect_ratios) : Len(aspect_ratio_buckets[k]) > batch_size
    /\ Len(emitted) >= 1

\* ---- C18 -----------------------------------------------------------------------
\* C18: in the streaming phase of the balanced scheduler, whenever an index is
\* routed to a qualifying key that is in the available list after the swap check
\* and whose bucket holds batch_size indices or more after the capture step, a
\* batch of that key is handed over at that index.
C18_EmitsWhenEnough ==
    [][(/\ Pulled
        /\ In(key', all_available_keys)
        /\ In(key', current_available_bucket_keys')
        /\ Len(aspect_ratio_buckets'[key']) >= batch_size)
          => pc' = "yield_stream"]_vars

\* ---- C19 -----------------------------------------------------------------------
\* C19: in the basic scheduler a full bucket is handed over and cleared in one go
\* as far as the consumer can tell: while a streaming batch is at the consumer none
\* of its indices is in the stored bucket, and once the consumer has stopped
\* iterating every stored bucket holds fewer than batch_size indices.
C19_HandOverAtomic ==
    cls = "basic" =>
        /\ pc = "yield_stream" =>
              \A j \in DOMAIN yielded : ~In(yielded[j], aspect_ratio_buckets[key])
        /\ pc = "idle" =>
              \A k \in SeqToSet(aspect_ratios) : Len(aspect_ratio_buckets[k]) < batch_size

\* ---- C20 -----------------------------------------------------------------------
\* C20: a pass of the balanced scheduler raises no runtime error, whatever
\* non-empty quota mapping it was constructed with; when no key qualifies every
\* index is discarded and no batch is handed over.
C20_NoRuntimeError ==
    cls = "balanced" =>
        /\ pc /= "error"
        /\ all_available_keys = << >> =>
              /\ emitted = << >>
              /\ \A k \in DOMAIN aspect_ratio_buckets : aspect_ratio_buckets[k] = << >>
====
